---- MODULE Spec2Model ----
(***************************************************************************)
(* A state-machine model of the laboratory equipment management            *)
(* application (src/app/main.py, src/app/data.py): the in-memory DataStore *)
(* and the FastAPI route handlers that read, filter and mutate it.         *)
(*                                                                         *)
(* Each handler is one action.  The action records the request in `req`    *)
(* and the response (status code, redirect target, template context or     *)
(* JSON body) in `resp`, and updates the store exactly as the handler's    *)
(* body does.                                                              *)
(*                                                                         *)
(* Conventions.  Python None is the string None.  Python str values that   *)
(* the code inspects character by character (equipment name, code, the     *)
(* search text) are sequences of one-character strings; all other strings  *)
(* are TLA+ strings.  Parsing functions (int, datetime.fromisoformat) are  *)
(* tables over the literals that occur in the model's inputs.              *)
(***************************************************************************)
EXTENDS Integers, Sequences, FiniteSets, TLC

VARIABLES
    users,              \* db.users
    equipment,          \* db.equipment
    bookings,           \* db.bookings
    logs,               \* db.logs
    visitorCount,       \* db.home_config.visitorCount
    inventorySessions,  \* db.inventorySessions (an attribute created on demand)
    req,                \* the request being answered
    resp                \* the response to it

vars == <<users, equipment, bookings, logs, visitorCount, inventorySessions, req, resp>>

store == <<users, equipment, bookings, logs, visitorCount, inventorySessions>>

(***************************************************************************)
(* Bounds of the model.                                                    *)
(***************************************************************************)
MaxBookings == 2
MaxLogs == 2
MaxEquipment == 2
MaxSearchLen == 2
MaxVisits == 1
MaxSessions == 1
MaxInFlight == 2

----------------------------------------------------------------------------
(***************************************************************************)
(* Python values.                                                          *)
(***************************************************************************)
None == "None"

\* bool(x) is False, for x a str or None.
Falsy(x) == x = None \/ x = ""

\* The value get_user / get_equipment return when no element matches.
NotFound == [found |-> FALSE]

RECURSIVE SumOver(_, _)
SumOver(f, S) ==
    IF S = {} THEN 0
    ELSE LET k == CHOOSE k \in S : TRUE IN f[k] + SumOver(f, S \ {k})

\* [x for x in s if Test(x)]
Filter(s, Test(_)) == SelectSeq(s, Test)

\* Mutant of SortedReverse: sorted(S), ascending.
RECURSIVE SortedAscending(_)
SortedAscending(S) ==
    IF S = {} THEN <<>>
    ELSE LET m == CHOOSE m \in S : \A n \in S : m <= n
         IN  <<m>> \o SortedAscending(S \ {m})

\* sorted(S, reverse=True) of a set of integers.
RECURSIVE SortedReverse(_)
SortedReverse(S) ==
    IF S = {} THEN <<>>
    ELSE LET m == CHOOSE m \in S : \A n \in S : n <= m
         IN  <<m>> \o SortedReverse(S \ {m})

----------------------------------------------------------------------------
(***************************************************************************)
(* The seed of the DataStore.                                              *)
(***************************************************************************)
SeedUsers ==
    << [id |-> "adminctump", role |-> "ADMIN",   isLocked |-> FALSE, password |-> "adminctump"],
       [id |-> "u2",         role |-> "STAFF",   isLocked |-> FALSE, password |-> "123@"],
       [id |-> "u3",         role |-> "STUDENT", isLocked |-> FALSE, password |-> "123@"] >>

\* Names and codes are written without diacritics.
SeedEquipment ==
    << [id |-> "e1",
        name |-> <<"K","i","n","h"," ","H","i","e","n"," ","V","i"," ",
                   "O","l","y","m","p","u","s"," ","C","X","2","3">>,
        code |-> <<"K","H","V","-","0","0","1">>,
        status |-> "AVAILABLE", usingDepartment |-> "Bo mon Sinh hoc"],
       [id |-> "e2",
        name |-> <<"M","a","y"," ","L","y"," ","T","a","m"," ",
                   "H","e","t","t","i","c","h">>,
        code |-> <<"M","L","T","-","0","0","2">>,
        status |-> "MAINTENANCE", usingDepartment |-> None] >>

SeedVisitorCount == 15300

\* DataStore.__init__ sets no inventorySessions attribute.
NoInventoryAttr == [present |-> FALSE, items |-> <<>>]

NoRequest == [route |-> "none"]

Init ==
    /\ users = SeedUsers
    /\ equipment = SeedEquipment
    /\ bookings = <<>>
    /\ logs = <<>>
    /\ visitorCount = SeedVisitorCount
    /\ inventorySessions = NoInventoryAttr
    /\ req = NoRequest
    /\ resp = NoRequest

----------------------------------------------------------------------------
(***************************************************************************)
(* DataStore lookups and the access-control helpers.                       *)
(***************************************************************************)
\* next((u for u in self.users if u.id == user_id), None)
get_user(user_id) ==
    LET hits == {i \in 1..Len(users) : users[i].id = user_id}
    IN  IF hits = {} THEN NotFound
        ELSE users[CHOOSE i \in hits : \A j \in hits : i <= j]

get_equipment(eq_id) ==
    LET hits == {i \in 1..Len(equipment) : equipment[i].id = eq_id}
    IN  IF hits = {} THEN NotFound
        ELSE equipment[CHOOSE i \in hits : \A j \in hits : i <= j]

\* Mutant of get_current_user: a locked user is not resolved.
get_current_user_unless_locked(cookie) ==
    IF Falsy(cookie) \/ get_user(cookie) = NotFound THEN NotFound
    ELSE IF get_user(cookie).isLocked THEN NotFound
    ELSE get_user(cookie)

\* `cookie` is request.cookies.get("user_id").
get_current_user(cookie) ==
    IF Falsy(cookie) THEN NotFound ELSE get_user(cookie)

\* The guards return the redirect target, or None when the request passes.
require_login(cookie) ==
    IF get_current_user(cookie) = NotFound THEN "/login" ELSE None

StaffRoles == {"ADMIN", "STAFF"}

\* Mutant of require_staff: the role is not checked.
require_staff_any_role(cookie) == require_login(cookie)

require_staff(cookie) ==
    LET user == get_current_user(cookie)
    IN  IF user = NotFound THEN "/login"
        ELSE IF user.role \notin StaffRoles THEN "/"
        ELSE None

require_admin(cookie) ==
    LET user == get_current_user(cookie)
    IN  IF user = NotFound THEN "/login"
        ELSE IF user.role # "ADMIN" THEN "/"
        ELSE None

redirect_to(route, path) == [route |-> route, code |-> 302, location |-> path]

\* An exception that escapes a handler: FastAPI answers 500.
ServerError(route) == [route |-> route, code |-> 500]

\* JSONResponse({"success": False, "message": "Unauthorized"}, status_code=401)
Unauthorized(route) ==
    [route |-> route, code |-> 401, success |-> FALSE, message |-> "Unauthorized"]

----------------------------------------------------------------------------
(***************************************************************************)
(* POST /api/login and GET /logout                                         *)
(***************************************************************************)
\* Mutant of LoginAccepts: the locked flag is not consulted.
LoginAcceptsLocked(user, password) ==
    user # NotFound /\ user.password = password

\* user and user.password == password and not user.isLocked
LoginAccepts(user, password) ==
    user # NotFound /\ user.password = password /\ ~user.isLocked

\* set_cookie is the value of the user_id cookie the response sets, None
\* when it sets none.
login_api(user_id, password) ==
    LET user == get_user(user_id)
    IN  /\ req' = [route |-> "login", user_id |-> user_id, password |-> password]
        /\ resp' = IF LoginAccepts(user, password)
                   THEN [route |-> "login", code |-> 200, success |-> TRUE,
                         redirect |-> "/", set_cookie |-> user.id]
                   ELSE [route |-> "login", code |-> 401, success |-> FALSE,
                         message |-> "Sai thong tin dang nhap", set_cookie |-> None]
        /\ UNCHANGED store

\* delete_cookie is the name of the cookie the response deletes.
logout ==
    /\ req' = [route |-> "logout"]
    /\ resp' = [route |-> "logout", code |-> 302, location |-> "/login",
                delete_cookie |-> "user_id"]
    /\ UNCHANGED store

----------------------------------------------------------------------------
(***************************************************************************)
(* GET /equipment                                                          *)
(***************************************************************************)
UpperCase == <<"A","B","C","D","E","F","G","H","I","J","K","L","M",
               "N","O","P","Q","R","S","T","U","V","W","X","Y","Z">>
LowerCase == <<"a","b","c","d","e","f","g","h","i","j","k","l","m",
               "n","o","p","q","r","s","t","u","v","w","x","y","z">>

\* str.lower() of one character.
LowerChar(c) ==
    IF \E i \in 1..Len(UpperCase) : UpperCase[i] = c
    THEN LowerCase[CHOOSE i \in 1..Len(UpperCase) : UpperCase[i] = c]
    ELSE c

\* s.lower()
Lower(s) == [i \in 1..Len(s) |-> LowerChar(s[i])]

\* needle in hay
Contains(needle, hay) ==
    \E k \in 0..(Len(hay) - Len(needle)) :
        \A i \in 1..Len(needle) : hay[k + i] = needle[i]

\* Mutant of MatchesSearch: the name and the code are not lower-cased.
MatchesSearchCaseSensitive(e, search) ==
    LET s == Lower(search) IN Contains(s, e.name) \/ Contains(s, e.code)

\* s in e.name.lower() or s in e.code.lower(), with s = search.lower()
MatchesSearch(e, search) ==
    LET s == Lower(search)
    IN  Contains(s, Lower(e.name)) \/ Contains(s, Lower(e.code))

EquipmentItems(search, status) ==
    LET Hit(e)      == MatchesSearch(e, search)
        HasStatus(e) == e.status = status
        all         == equipment
        searched    == IF search # <<>> THEN Filter(all, Hit) ELSE all
    IN  IF status # "ALL" THEN Filter(searched, HasStatus) ELSE searched

equipment_list(cookie, search, status) ==
    /\ req' = [route |-> "equipment_list", cookie |-> cookie,
               search |-> search, status |-> status]
    /\ resp' = [route |-> "equipment_list", code |-> 200,
                equipment |-> EquipmentItems(search, status),
                search |-> search, status_filter |-> status]
    /\ UNCHANGED store

(***************************************************************************)
(* GET /equipment-stats                                                    *)
(***************************************************************************)
EmptyDict == [k \in {} |-> 0]

\* d.get(k, 0)
Get(d, k) == IF k \in DOMAIN d THEN d[k] ELSE 0

Put(d, k, v) == [x \in DOMAIN d \cup {k} |-> IF x = k THEN v ELSE d[x]]

\* Mutant of Increment: the previous count is dropped.
IncrementFromZero(d, k) == Put(d, k, 1)

\* d[k] = d.get(k, 0) + 1
Increment(d, k) == Put(d, k, Get(d, k) + 1)

\* getattr(e, "status", "UNKNOWN") or "UNKNOWN"
StatusKey(e) == IF Falsy(e.status) THEN "UNKNOWN" ELSE e.status

\* getattr(e, "usingDepartment", None) or "N/A"
DepartmentKey(e) == IF Falsy(e.usingDepartment) THEN "N/A" ELSE e.usingDepartment

\* by_status after the loop has run over the first n records.
RECURSIVE ByStatus(_, _)
ByStatus(list, n) ==
    IF n = 0 THEN EmptyDict
    ELSE Increment(ByStatus(list, n - 1), StatusKey(list[n]))

RECURSIVE ByDepartment(_, _)
ByDepartment(list, n) ==
    IF n = 0 THEN EmptyDict
    ELSE Increment(ByDepartment(list, n - 1), DepartmentKey(list[n]))

equipment_stats_page(cookie) ==
    LET r == require_staff(cookie)
    IN  /\ req' = [route |-> "equipment_stats", cookie |-> cookie]
        /\ resp' = IF r # None THEN redirect_to("equipment_stats", r)
                   ELSE [route |-> "equipment_stats", code |-> 200,
                         total_equipment |-> Len(equipment),
                         by_status |-> ByStatus(equipment, Len(equipment)),
                         by_department |-> ByDepartment(equipment, Len(equipment))]
        /\ UNCHANGED store

----------------------------------------------------------------------------
(***************************************************************************)
(* GET /bookings                                                           *)
(***************************************************************************)
\* datetime.now().year
CurrentYear == 2026

BookingStatuses ==
    {"PENDING", "APPROVED", "ACTIVE", "COMPLETED", "CANCELLED", "REJECTED"}

HistoryStatuses == {"COMPLETED", "CANCELLED", "REJECTED"}

\* int(s): the literals it accepts, and their values.  Any other text raises.
IntLiterals == {"0", "2025", "2026"}

int(s) ==
    CASE s = "0"    -> 0
      [] s = "2025" -> 2025
      [] s = "2026" -> 2026

\* datetime.fromisoformat(s).year: the texts it accepts, and their years.
\* Any other text raises.
IsoTimes == {"2025-03-10T08:00", "2026-01-15T14:00"}

fromisoformat_year(s) ==
    CASE s = "2025-03-10T08:00" -> 2025
      [] s = "2026-01-15T14:00" -> 2026

Unknown == <<"U","n","k","n","o","w","n">>

\* {**_to_dict(b), "equipmentName": ..., "equipmentCode": ...}
Enhance(b) ==
    LET eq == get_equipment(b.equipmentId)
    IN  [id |-> b.id, userId |-> b.userId, equipmentId |-> b.equipmentId,
         startTime |-> b.startTime, status |-> b.status,
         equipmentName |-> IF eq # NotFound THEN eq.name ELSE Unknown,
         equipmentCode |-> IF eq # NotFound THEN eq.code ELSE <<>>]

\* Mutant of VisibleBookings: the role check is dropped.
VisibleBookingsUnscoped(user) == bookings

\* The bookings the user may see, before they are enhanced.
VisibleBookings(user) ==
    IF user.role \notin StaffRoles
    THEN LET Own(b) == b.userId = user.id IN Filter(bookings, Own)
    ELSE bookings

EnhancedBookings(user) ==
    LET vis == VisibleBookings(user)
    IN  [i \in 1..Len(vis) |-> Enhance(vis[i])]

\* Mutant of LoggedBookingIds: only the latest log is consulted.
LoggedBookingIdsLatest ==
    {logs[i].bookingId : i \in {j \in 1..Len(logs) :
        j = Len(logs) /\ ~Falsy(logs[j].bookingId)}}

\* {l.bookingId for l in logs if l.bookingId}
LoggedBookingIds ==
    {logs[i].bookingId : i \in {j \in 1..Len(logs) : ~Falsy(logs[j].bookingId)}}

IsPending(b) == b.status = "PENDING"
IsApproved(b) == b.status = "APPROVED"
IsActive(b) == b.status = "ACTIVE"
IsHistory(b) == b.status \in HistoryStatuses
\* Mutant of IsWaitingLog: the logged ids are not consulted.
IsWaitingLogIgnoringLogs(b, logged_ids) == b.status = "COMPLETED"

IsWaitingLog(b, logged_ids) == b.status = "COMPLETED" /\ b.id \notin logged_ids

\* Mutant of HistoryFilter: the year is not applied.
HistoryFilterIgnoringYear(bks, year) == Filter(bks, IsHistory)

\* The HISTORY branch of filter_by_tab; `year` is an integer.
HistoryFilter(bks, year) ==
    LET filtered == Filter(bks, IsHistory)
        InYear(b) == fromisoformat_year(b.startTime) = year
    IN  IF year # 0 THEN Filter(filtered, InYear) ELSE filtered

\* Mutant of filter_by_tab: an unrecognized tab yields the empty list.
filter_by_tab_strict(bks, tab, logged_ids, year) ==
    LET Waiting(b) == IsWaitingLog(b, logged_ids)
    IN  CASE tab = "PENDING"     -> Filter(bks, IsPending)
          [] tab = "APPROVED"    -> Filter(bks, IsApproved)
          [] tab = "ACTIVE"      -> Filter(bks, IsActive)
          [] tab = "WAITING_LOG" -> Filter(bks, Waiting)
          [] tab = "HISTORY"     -> HistoryFilter(bks, year)
          [] OTHER               -> <<>>

filter_by_tab(bks, tab, logged_ids, year) ==
    LET Waiting(b) == IsWaitingLog(b, logged_ids)
    IN  CASE tab = "PENDING"     -> Filter(bks, IsPending)
          [] tab = "APPROVED"    -> Filter(bks, IsApproved)
          [] tab = "ACTIVE"      -> Filter(bks, IsActive)
          [] tab = "WAITING_LOG" -> Filter(bks, Waiting)
          [] tab = "HISTORY"     -> HistoryFilter(bks, year)
          [] OTHER               -> bks

\* sorted({year of b for b in enhanced if history status}, reverse=True)
\*     or [datetime.now().year]
HistoryYears(enhanced) ==
    LET hist  == Filter(enhanced, IsHistory)
        years == {fromisoformat_year(hist[i].startTime) : i \in 1..Len(hist)}
        desc  == SortedReverse(years)
    IN  IF desc = <<>> THEN <<CurrentYear>> ELSE desc

\* The handler raises when int() or datetime.fromisoformat() does:
\* line 328 on the year parameter, line 355 on every history booking.
BookingsPageRaises(enhanced, year) ==
    \/ year # None /\ year \notin IntLiterals
    \/ \E i \in 1..Len(enhanced) :
          IsHistory(enhanced[i]) /\ enhanced[i].startTime \notin IsoTimes

\* Mutant of Counted: the counts range over the selected tab's list.
CountedOverFiltered(enhanced, filtered) == filtered

\* The list the five counts and history_years range over: `enhanced`.
Counted(enhanced, filtered) == enhanced

\* int(request.query_params.get("year", datetime.now().year))
SelectedYear(year) == IF year = None THEN CurrentYear ELSE int(year)

\* len([b for b in enhanced if b.get("status") in [COMPLETED, CANCELLED, REJECTED]])
HistoryCount(counted) == Len(Filter(counted, IsHistory))

\* The template context of a rendered page.
BookingsContext(user, tab, year) ==
    LET enhanced      == EnhancedBookings(user)
        logged_ids    == LoggedBookingIds
        active_tab    == IF tab = None THEN "PENDING" ELSE tab
        selected_year == SelectedYear(year)
        filtered      == filter_by_tab(enhanced, active_tab, logged_ids, selected_year)
        counted       == Counted(enhanced, filtered)
        Waiting(b)    == IsWaitingLog(b, logged_ids)
    IN  [route |-> "bookings", code |-> 200,
         bookings |-> enhanced,
         filtered_bookings |-> filtered,
         active_tab |-> active_tab,
         selected_history_year |-> selected_year,
         history_years |-> HistoryYears(counted),
         pending_count |-> Len(Filter(counted, IsPending)),
         approved_count |-> Len(Filter(counted, IsApproved)),
         active_count |-> Len(Filter(counted, IsActive)),
         waiting_log_count |-> Len(Filter(counted, Waiting)),
         history_count |-> HistoryCount(counted)]

BookingsResponse(cookie, tab, year) ==
    LET user == get_current_user(cookie)
    IN  IF user = NotFound THEN redirect_to("bookings", "/login")
        ELSE IF BookingsPageRaises(EnhancedBookings(user), year)
             THEN ServerError("bookings")
        ELSE BookingsContext(user, tab, year)

bookings_page(cookie, tab, year) ==
    /\ req' = [route |-> "bookings", cookie |-> cookie, tab |-> tab, year |-> year]
    /\ resp' = BookingsResponse(cookie, tab, year)
    /\ UNCHANGED store

(***************************************************************************)
(* POST /api/bookings/create                                               *)
(***************************************************************************)
\* A body that request.json() or Booking(**data) rejects.
BadPayload == [valid |-> FALSE]

\* Mutant of create_booking: a booking whose userId names no user is refused.
create_booking_validating(data) ==
    /\ req' = [route |-> "create_booking", data |-> data]
    /\ IF data = BadPayload \/ get_user(data.userId) = NotFound
       THEN /\ resp' = ServerError("create_booking")
            /\ UNCHANGED store
       ELSE /\ Len(bookings) < MaxBookings
            /\ bookings' = Append(bookings, data)
            /\ resp' = [route |-> "create_booking", code |-> 200, success |-> TRUE]
            /\ UNCHANGED <<users, equipment, logs, visitorCount, inventorySessions>>

create_booking(data) ==
    /\ req' = [route |-> "create_booking", data |-> data]
    /\ IF data = BadPayload
       THEN /\ resp' = ServerError("create_booking")
            /\ UNCHANGED store
       ELSE /\ Len(bookings) < MaxBookings
            /\ bookings' = Append(bookings, data)
            /\ resp' = [route |-> "create_booking", code |-> 200, success |-> TRUE]
            /\ UNCHANGED <<users, equipment, logs, visitorCount, inventorySessions>>

(***************************************************************************)
(* A UsageLog is added to db.logs.  No handler of the application does it; *)
(* the step stands for the store change the usage-log scenario speaks of.  *)
(***************************************************************************)
add_usage_log(log) ==
    /\ Len(logs) < MaxLogs
    /\ logs' = Append(logs, log)
    /\ UNCHANGED <<users, equipment, bookings, visitorCount, inventorySessions,
                   req, resp>>

----------------------------------------------------------------------------
(***************************************************************************)
(* GET /, GET /login, GET /equipment/{id} and the guarded pages.           *)
(***************************************************************************)
FeaturedEquipmentIds == {"e1", "e2"}

\* The id of the current user, None when there is none.
CurrentUserId(cookie) ==
    LET user == get_current_user(cookie)
    IN  IF user = NotFound THEN None ELSE user.id

home(cookie) ==
    LET Featured(e) == e.id \in FeaturedEquipmentIds
    IN  /\ visitorCount < SeedVisitorCount + MaxVisits
        /\ req' = [route |-> "home", cookie |-> cookie]
        /\ visitorCount' = visitorCount + 1
        /\ resp' = [route |-> "home", code |-> 200,
                    current_user |-> CurrentUserId(cookie),
                    visit_count |-> visitorCount + 1,
                    featured_equipment |-> Filter(equipment, Featured)]
        /\ UNCHANGED <<users, equipment, bookings, logs, inventorySessions>>

login_page(cookie) ==
    /\ req' = [route |-> "login_page", cookie |-> cookie]
    /\ resp' = IF get_current_user(cookie) # NotFound
               THEN redirect_to("login_page", "/")
               ELSE [route |-> "login_page", code |-> 200]
    /\ UNCHANGED store

equipment_detail(cookie, id) ==
    LET item == get_equipment(id)
        OfItem(l) == l.equipmentId = id
    IN  /\ req' = [route |-> "equipment_detail", cookie |-> cookie, id |-> id]
        /\ resp' = IF item = NotFound
                   THEN redirect_to("equipment_detail", "/equipment")
                   ELSE [route |-> "equipment_detail", code |-> 200,
                         item |-> item, logs |-> Filter(logs, OfItem)]
        /\ UNCHANGED store

LoginPages == {"layout", "ai-assistant", "profile"}
StaffPages == {"dashboard", "maintenance", "maintenance-list", "usage-logs", "inventory"}
AdminPages == {"admin"}

\* The guard each page handler calls first.
PageGuard(route, cookie) ==
    CASE route \in LoginPages -> require_login(cookie)
      [] route \in StaffPages -> require_staff(cookie)
      [] route \in AdminPages -> require_admin(cookie)

\* What the page adds to the common context.
PageData(route) ==
    CASE route = "usage-logs" -> logs
      [] route = "inventory"  -> inventorySessions.items
      [] route = "admin"      -> users
      [] OTHER                -> <<>>

guarded_page(route, cookie) ==
    LET r == PageGuard(route, cookie)
    IN  /\ req' = [route |-> route, cookie |-> cookie]
        /\ resp' = IF r # None THEN redirect_to(route, r)
                   ELSE [route |-> route, code |-> 200,
                         current_user |-> CurrentUserId(cookie),
                         data |-> PageData(route)]
        /\ UNCHANGED store

(***************************************************************************)
(* /api/inventory/sessions: a session is a JSON object, a function from    *)
(* its keys to their values.                                               *)
(***************************************************************************)
\* _ensure_inventory_store()
EnsuredSessions == inventorySessions.items

DictGet(d, k) == IF k \in DOMAIN d THEN d[k] ELSE None

\* {**s, **payload}
Merge(s, payload) ==
    [k \in DOMAIN s \cup DOMAIN payload |->
        IF k \in DOMAIN payload THEN payload[k] ELSE s[k]]

\* The year of the session's date is `year`; a missing, empty or malformed
\* date has no year.
SessionInYear(sess, year) ==
    LET date_str == DictGet(sess, "date")
    IN  /\ ~Falsy(date_str)
        /\ date_str \in IsoTimes
        /\ fromisoformat_year(date_str) = year

api_inventory_sessions(cookie, year) ==
    LET r == require_staff(cookie)
        OfYear(sess) == SessionInYear(sess, int(year))
    IN  /\ req' = [route |-> "inventory_sessions", cookie |-> cookie, year |-> year]
        /\ IF r # None
           THEN /\ resp' = Unauthorized("inventory_sessions")
                /\ UNCHANGED store
           ELSE /\ inventorySessions' = [present |-> TRUE, items |-> EnsuredSessions]
                /\ resp' = [route |-> "inventory_sessions", code |-> 200, success |-> TRUE,
                            data |-> IF year # None
                                     THEN Filter(EnsuredSessions, OfYear)
                                     ELSE EnsuredSessions]
                /\ UNCHANGED <<users, equipment, bookings, logs, visitorCount>>

api_inventory_create_session(cookie, payload) ==
    LET r == require_staff(cookie)
    IN  /\ req' = [route |-> "inventory_create", cookie |-> cookie, payload |-> payload]
        /\ IF r # None
           THEN /\ resp' = Unauthorized("inventory_create")
                /\ UNCHANGED store
           ELSE /\ Len(EnsuredSessions) < MaxSessions
                /\ inventorySessions' =
                       [present |-> TRUE, items |-> Append(EnsuredSessions, payload)]
                /\ resp' = [route |-> "inventory_create", code |-> 200, success |-> TRUE,
                            data |-> payload]
                /\ UNCHANGED <<users, equipment, bookings, logs, visitorCount>>

\* new_list after the loop over the list `old`.
UpdatedSessions(old, session_id, payload) ==
    [i \in 1..Len(old) |->
        IF DictGet(old[i], "id") = session_id THEN Merge(old[i], payload) ELSE old[i]]

api_inventory_update_session(cookie, session_id, payload) ==
    LET r == require_staff(cookie)
        old == EnsuredSessions
        hit(i) == DictGet(old[i], "id") = session_id
        new_list == UpdatedSessions(old, session_id, payload)
    IN  /\ req' = [route |-> "inventory_update", cookie |-> cookie,
                   session_id |-> session_id, payload |-> payload]
        /\ IF r # None
           THEN /\ resp' = Unauthorized("inventory_update")
                /\ UNCHANGED store
           ELSE /\ inventorySessions' = [present |-> TRUE, items |-> new_list]
                /\ resp' = [route |-> "inventory_update", code |-> 200, success |-> TRUE,
                            updated |-> \E i \in 1..Len(old) : hit(i)]
                /\ UNCHANGED <<users, equipment, bookings, logs, visitorCount>>

api_inventory_delete_session(cookie, session_id) ==
    LET r == require_staff(cookie)
        old == EnsuredSessions
        Keep(sess) == DictGet(sess, "id") # session_id
        kept == Filter(old, Keep)
    IN  /\ req' = [route |-> "inventory_delete", cookie |-> cookie,
                   session_id |-> session_id]
        /\ IF r # None
           THEN /\ resp' = Unauthorized("inventory_delete")
                /\ UNCHANGED store
           ELSE /\ inventorySessions' = [present |-> TRUE, items |-> kept]
                /\ resp' = [route |-> "inventory_delete", code |-> 200, success |-> TRUE,
                            deleted |-> Len(old) - Len(kept)]
                /\ UNCHANGED <<users, equipment, bookings, logs, visitorCount>>

(***************************************************************************)
(* /api/me, /api/equipment, /api/users, /api/usage-logs                    *)
(***************************************************************************)
api_me(cookie) ==
    LET user == get_current_user(cookie)
    IN  /\ req' = [route |-> "api_me", cookie |-> cookie]
        /\ resp' = IF user = NotFound THEN Unauthorized("api_me")
                   ELSE [route |-> "api_me", code |-> 200, success |-> TRUE,
                         data |-> user]
        /\ UNCHANGED store

api_equipment_list(cookie) ==
    LET r == require_login(cookie)
    IN  /\ req' = [route |-> "api_equipment", cookie |-> cookie]
        /\ resp' = IF r # None THEN Unauthorized("api_equipment")
                   ELSE [route |-> "api_equipment", code |-> 200, success |-> TRUE,
                         data |-> equipment]
        /\ UNCHANGED store

api_users(cookie) ==
    LET r == require_staff(cookie)
    IN  /\ req' = [route |-> "api_users", cookie |-> cookie]
        /\ resp' = IF r # None THEN Unauthorized("api_users")
                   ELSE [route |-> "api_users", code |-> 200, success |-> TRUE,
                         data |-> users]
        /\ UNCHANGED store

api_usage_logs(cookie) ==
    LET r == require_staff(cookie)
    IN  /\ req' = [route |-> "api_usage_logs", cookie |-> cookie]
        /\ resp' = IF r # None THEN Unauthorized("api_usage_logs")
                   ELSE [route |-> "api_usage_logs", code |-> 200, success |-> TRUE,
                         data |-> logs]
        /\ UNCHANGED store

----------------------------------------------------------------------------
(***************************************************************************)
(* The application: the seeded store and every handler, each request's     *)
(* inputs drawn from a small set.                                          *)
(***************************************************************************)
\* A request without the cookie, with an empty one, with the id of no user,
\* and with the id of the student, the staff member and the administrator.
Cookies == {None, "", "ghost", "u3", "u2", "adminctump"}

SomeCookies == {None, "u3", "u2", "adminctump"}

SessionPayloads ==
    {[id |-> "s1", date |-> "2026-01-15T14:00"], [id |-> "s2", date |-> "soon"]}

SessionUpdates == {[date |-> "soon"]}

SessionIds == {"s1", "s2"}

FewBookingPayloads ==
    {[id |-> "b1", userId |-> "u3", equipmentId |-> "e1",
      startTime |-> "2026-01-15T14:00", status |-> "COMPLETED"],
     [id |-> "b2", userId |-> "ghost", equipmentId |-> "e9",
      startTime |-> "tomorrow", status |-> "CANCELLED"]}

Next ==
    \/ \E cookie \in SomeCookies : home(cookie)
    \/ \E cookie \in SomeCookies : login_page(cookie)
    \/ \E user_id \in {"u3", "nobody"}, password \in {"123@", "wrong"} :
          login_api(user_id, password)
    \/ logout
    \/ \E cookie \in SomeCookies, route \in LoginPages \cup StaffPages \cup AdminPages :
          guarded_page(route, cookie)
    \/ \E search \in {<<>>, <<"o","l","y","m","p","u","s">>},
          status \in {"ALL", "MAINTENANCE"} :
          equipment_list(None, search, status)
    \/ \E id \in {"e1", "e9"} : equipment_detail(None, id)
    \/ \E cookie \in SomeCookies : equipment_stats_page(cookie)
    \/ \E cookie \in SomeCookies, tab \in {None, "FOO"}, year \in {None, "x"} :
          bookings_page(cookie, tab, year)
    \/ \E data \in FewBookingPayloads \cup {BadPayload} : create_booking(data)
    \/ \E cookie \in Cookies, year \in {None, "2026"} :
          api_inventory_sessions(cookie, year)
    \/ \E cookie \in SomeCookies, payload \in SessionPayloads :
          api_inventory_create_session(cookie, payload)
    \/ \E cookie \in SomeCookies, id \in SessionIds, payload \in SessionUpdates :
          api_inventory_update_session(cookie, id, payload)
    \/ \E cookie \in SomeCookies, id \in SessionIds :
          api_inventory_delete_session(cookie, id)
    \/ \E cookie \in SomeCookies : api_me(cookie)
    \/ \E cookie \in SomeCookies : api_equipment_list(cookie)
    \/ \E cookie \in Cookies : api_users(cookie)
    \/ \E cookie \in SomeCookies : api_usage_logs(cookie)

Spec == Init /\ [][Next]_vars

----------------------------------------------------------------------------
(***************************************************************************)
(* The bookings specification: GET /bookings as a function of the store    *)
(* and the request.  Init draws a store that POST /api/bookings/create can *)
(* build and a pending request; the handler answers it.                    *)
(***************************************************************************)
\* All sequences over S of length at most n.
BoundedSeq(S, n) == UNION {[1..k -> S] : k \in 0..n}

Pending(route) == req.route = route /\ resp = NoRequest

BookingPayloads ==
    [id : {"b1"}, userId : {"u2", "u3"}, equipmentId : {"e1"},
     startTime : IsoTimes, status : BookingStatuses]

BookingCookies == {None, "u3", "u2", "adminctump"}

Tabs == {None, "PENDING", "APPROVED", "ACTIVE", "WAITING_LOG", "HISTORY", "FOO"}

YearParams == {None, "0", "2025", "2026"}

BookingsRequests ==
    [route : {"bookings"}, cookie : BookingCookies, tab : Tabs, year : YearParams]

InitBookings ==
    /\ users = SeedUsers
    /\ equipment = SeedEquipment
    /\ bookings \in BoundedSeq(BookingPayloads, MaxBookings)
    /\ logs = <<>>
    /\ visitorCount = SeedVisitorCount
    /\ inventorySessions = NoInventoryAttr
    /\ req \in BookingsRequests
    /\ resp = NoRequest

NextBookings ==
    Pending("bookings") /\ bookings_page(req.cookie, req.tab, req.year)

SpecBookings == InitBookings /\ [][NextBookings]_vars

----------------------------------------------------------------------------
(***************************************************************************)
(* The usage-log specification: GET /bookings over stores that also hold   *)
(* UsageLogs.  No handler writes db.logs, so Init draws them.              *)
(***************************************************************************)
LogBookingPayloads ==
    [id : {"b1", "b2", ""}, userId : {"u2", "u3"}, equipmentId : {"e1"},
     startTime : {"2026-01-15T14:00"}, status : {"COMPLETED", "ACTIVE"}]

UsageLogs == [bookingId : {None, "", "b1", "b2"}, equipmentId : {"e1"}]

LogsRequests ==
    [route : {"bookings"}, cookie : {None, "u3", "u2"},
     tab : {"WAITING_LOG", "HISTORY"}, year : {None}]

InitLogs ==
    /\ users = SeedUsers
    /\ equipment = SeedEquipment
    /\ bookings \in BoundedSeq(LogBookingPayloads, MaxBookings)
    /\ logs \in BoundedSeq(UsageLogs, MaxLogs)
    /\ visitorCount = SeedVisitorCount
    /\ inventorySessions = NoInventoryAttr
    /\ req \in LogsRequests
    /\ resp = NoRequest

SpecLogs == InitLogs /\ [][NextBookings]_vars

----------------------------------------------------------------------------
(***************************************************************************)
(* The waiting-log specification: bookings are created, usage logs are     *)
(* added, and GET /bookings is asked in between.                           *)
(***************************************************************************)
WaitingLogPayloads ==
    {[id |-> "b1", userId |-> "u3", equipmentId |-> "e1",
      startTime |-> "2026-01-15T14:00", status |-> "COMPLETED"],
     [id |-> "", userId |-> "u3", equipmentId |-> "e1",
      startTime |-> "2026-01-15T14:00", status |-> "COMPLETED"],
     [id |-> "b2", userId |-> "u2", equipmentId |-> "e1",
      startTime |-> "2025-03-10T08:00", status |-> "COMPLETED"],
     [id |-> "b1", userId |-> "u3", equipmentId |-> "e1",
      startTime |-> "2026-01-15T14:00", status |-> "ACTIVE"]}

AddedLogs == [bookingId : {"b1", "b2", ""}, equipmentId : {"e1"}]

NextWaitingLog ==
    \/ \E data \in WaitingLogPayloads : create_booking(data)
    \/ \E log \in AddedLogs : add_usage_log(log)
    \/ \E cookie \in {"u3", "u2"}, tab \in {"WAITING_LOG", "HISTORY"} :
          bookings_page(cookie, tab, None)

SpecWaitingLog == Init /\ [][NextWaitingLog]_vars

----------------------------------------------------------------------------
(***************************************************************************)
(* The concurrent specification.  The handlers are coroutines of one event *)
(* loop: a handler runs without interruption from one await to the next.   *)
(* GET / has no await; POST /api/bookings/create and PUT                   *)
(* /api/inventory/sessions/{id} have one, `await request.json()`.  Here    *)
(* req is the sequence of the requests in flight, each with its position   *)
(* pc, and resp the sequence of the responses in the order they were       *)
(* returned.                                                               *)
(***************************************************************************)
\* db.inventorySessions when the requests arrive.
ArrivalSessions == <<[id |-> "s1", date |-> "2026-01-15T14:00"]>>

ConcurrentPayloads ==
    {[id |-> "b1", userId |-> "u3", equipmentId |-> "e1",
      startTime |-> "2026-01-15T14:00", status |-> "PENDING"],
     [id |-> "b2", userId |-> "u2", equipmentId |-> "e1",
      startTime |-> "2026-01-15T14:00", status |-> "PENDING"]}

ConcurrentUpdates == {[date |-> "soon"], [note |-> "x"]}

ConcurrentRequests ==
    [route : {"home"}, cookie : {None}, pc : {"start"}]
    \cup [route : {"create_booking"}, data : ConcurrentPayloads \cup {BadPayload},
          pc : {"start"}]
    \cup [route : {"inventory_update"}, cookie : {"u2", "u3"}, session_id : {"s1"},
          payload : ConcurrentUpdates, pc : {"start"}]

InitConcurrent ==
    /\ users = SeedUsers
    /\ equipment = SeedEquipment
    /\ bookings = <<>>
    /\ logs = <<>>
    /\ visitorCount = SeedVisitorCount
    /\ inventorySessions = [present |-> TRUE, items |-> ArrivalSessions]
    /\ req \in [1..MaxInFlight -> ConcurrentRequests]
    /\ resp = <<>>

At(i, route, pc) == req[i].route = route /\ req[i].pc = pc

\* home, lines 129-147: no await between the read and the write of visitorCount.
home_run(i) ==
    /\ At(i, "home", "start")
    /\ visitorCount' = visitorCount + 1
    /\ req' = [req EXCEPT ![i].pc = "done"]
    /\ resp' = Append(resp, [slot |-> i, route |-> "home", code |-> 200,
                             visit_count |-> visitorCount + 1])
    /\ UNCHANGED <<users, equipment, bookings, logs, inventorySessions>>

\* create_booking up to `data = await request.json()`.
create_booking_await(i) ==
    /\ At(i, "create_booking", "start")
    /\ req' = [req EXCEPT ![i].pc = "json"]
    /\ UNCHANGED <<store, resp>>

\* create_booking from the await to its return.
create_booking_resume(i) ==
    /\ At(i, "create_booking", "json")
    /\ req' = [req EXCEPT ![i].pc = "done"]
    /\ IF req[i].data = BadPayload
       THEN /\ resp' = Append(resp, [slot |-> i, route |-> "create_booking",
                                     code |-> 500])
            /\ UNCHANGED store
       ELSE /\ bookings' = Append(bookings, req[i].data)
            /\ resp' = Append(resp, [slot |-> i, route |-> "create_booking",
                                     code |-> 200, success |-> TRUE])
            /\ UNCHANGED <<users, equipment, logs, visitorCount, inventorySessions>>

\* api_inventory_update_session up to `payload = await request.json()`:
\* require_staff is decided before the await.
update_session_await(i) ==
    /\ At(i, "inventory_update", "start")
    /\ IF require_staff(req[i].cookie) # None
       THEN /\ req' = [req EXCEPT ![i].pc = "done"]
            /\ resp' = Append(resp, [slot |-> i, route |-> "inventory_update",
                                     code |-> 401, success |-> FALSE])
       ELSE /\ req' = [req EXCEPT ![i].pc = "json"]
            /\ resp' = resp
    /\ UNCHANGED store

\* Mutant of SessionsAtResume: the list is the one read when the request
\* arrived, before the await.
SessionsAtArrival == ArrivalSessions

\* `for s in db.inventorySessions` runs after the await: it reads the list
\* as it is when the handler resumes.
SessionsAtResume == EnsuredSessions

\* api_inventory_update_session from the await to its return.
update_session_resume(i) ==
    LET old == SessionsAtResume
    IN  /\ At(i, "inventory_update", "json")
        /\ req' = [req EXCEPT ![i].pc = "done"]
        /\ inventorySessions' =
               [present |-> TRUE,
                items |-> UpdatedSessions(old, req[i].session_id, req[i].payload)]
        /\ resp' = Append(resp, [slot |-> i, route |-> "inventory_update",
                                 code |-> 200, success |-> TRUE,
                                 updated |-> \E k \in 1..Len(old) :
                                     DictGet(old[k], "id") = req[i].session_id])
        /\ UNCHANGED <<users, equipment, bookings, logs, visitorCount>>

NextConcurrent ==
    \E i \in 1..MaxInFlight :
        \/ home_run(i)
        \/ create_booking_await(i)
        \/ create_booking_resume(i)
        \/ update_session_await(i)
        \/ update_session_resume(i)

SpecConcurrent == InitConcurrent /\ [][NextConcurrent]_vars


(* functions of db.equipment and the request.                              *)
(***************************************************************************)
SearchChars == {"o", "L", "y"}

SearchTexts == BoundedSeq(SearchChars, MaxSearchLen)

EquipmentRecords ==
    [id : {"e1"},
     name : {<<"O","l","y">>, <<"k","o">>},
     code : {<<"K","L">>},
     status : {"AVAILABLE", None},
     usingDepartment : {"Lab", None}]

EquipmentRequests ==
    [route : {"equipment_list"}, cookie : {None}, search : SearchTexts,
     status : {"ALL", "AVAILABLE", "MAINTENANCE"}]
    \cup [route : {"equipment_stats"}, cookie : {None, "u3", "u2", "adminctump"}]

InitEquipment ==
    /\ users = SeedUsers
    /\ equipment \in BoundedSeq(EquipmentRecords, MaxEquipment)
    /\ bookings = <<>>
    /\ logs = <<>>
    /\ visitorCount = SeedVisitorCount
    /\ inventorySessions = NoInventoryAttr
    /\ req \in EquipmentRequests
    /\ resp = NoRequest

NextEquipment ==
    \/ Pending("equipment_list") /\ equipment_list(req.cookie, req.search, req.status)
    \/ Pending("equipment_stats") /\ equipment_stats_page(req.cookie)

SpecEquipment == InitEquipment /\ [][NextEquipment]_vars

----------------------------------------------------------------------------
(***************************************************************************)
(* The login specification: POST /api/login as a function of db.users and  *)
(* the submitted form.  No handler writes isLocked, so Init draws it.      *)
(***************************************************************************)
LockedVariants ==
    {[i \in 1..Len(SeedUsers) |-> [SeedUsers[i] EXCEPT !.isLocked = f[i]]] :
        f \in [1..Len(SeedUsers) -> BOOLEAN]}

LoginRequests ==
    [route : {"login"},
     user_id : {"adminctump", "u2", "u3", "nobody"},
     password : {"adminctump", "123@", "wrong"}]

InitLogin ==
    /\ users \in LockedVariants
    /\ equipment = SeedEquipment
    /\ bookings = <<>>
    /\ logs = <<>>
    /\ visitorCount = SeedVisitorCount
    /\ inventorySessions = NoInventoryAttr
    /\ req \in LoginRequests
    /\ resp = NoRequest

NextLogin == Pending("login") /\ login_api(req.user_id, req.password)

SpecLogin == InitLogin /\ [][NextLogin]_vars

----------------------------------------------------------------------------
(***************************************************************************)
(* The session specification: the gated pages and APIs, POST /api/login    *)
(* and GET /logout over stores whose users may be locked.  The server      *)
(* keeps no session state: the cookie is an input of each request.         *)
(***************************************************************************)
InitSessions ==
    /\ users \in LockedVariants
    /\ equipment = SeedEquipment
    /\ bookings = <<>>
    /\ logs = <<>>
    /\ visitorCount = SeedVisitorCount
    /\ inventorySessions = NoInventoryAttr
    /\ req = NoRequest
    /\ resp = NoRequest

NextSessions ==
    \/ \E user_id \in {"adminctump", "u2", "u3", "nobody"},
          password \in {"adminctump", "123@", "wrong"} : login_api(user_id, password)
    \/ logout
    \/ \E cookie \in Cookies : login_page(cookie)
    \/ \E cookie \in Cookies, route \in LoginPages \cup StaffPages \cup AdminPages :
          guarded_page(route, cookie)
    \/ \E cookie \in Cookies : api_me(cookie)
    \/ \E cookie \in Cookies : api_equipment_list(cookie)
    \/ \E cookie \in Cookies : api_users(cookie)

SpecSessions == InitSessions /\ [][NextSessions]_vars


(* the request.                                                            *)
(***************************************************************************)
BookingsRendered == resp.route = "bookings" /\ resp.code = 200

\* The request carries the id of a user of the store.
ReqKnown ==
    /\ req.cookie \notin {None, ""}
    /\ \E i \in 1..Len(users) : users[i].id = req.cookie

ReqRole == users[CHOOSE i \in 1..Len(users) : users[i].id = req.cookie].role

\* The positions in db.bookings of the bookings the requesting user may see.
VisibleIdx ==
    IF ReqRole \in {"STAFF", "ADMIN"}
    THEN 1..Len(bookings)
    ELSE {i \in 1..Len(bookings) : bookings[i].userId = req.cookie}

\* The elements of s at the positions I, in the order of s.
Restrict(s, I) ==
    [k \in 1..Cardinality(I) |->
        s[CHOOSE i \in I : Cardinality({j \in I : j <= i}) = k]]

\* A row of the page without its two equipment annotations.
Strip(e) ==
    [id |-> e.id, userId |-> e.userId, equipmentId |-> e.equipmentId,
     startTime |-> e.startTime, status |-> e.status]

Stripped(rows) == [k \in 1..Len(rows) |-> Strip(rows[k])]

Terminal(i) == bookings[i].status \in {"COMPLETED", "CANCELLED", "REJECTED"}

\* Some UsageLog carries the (non-empty) id of booking i as its bookingId.
LoggedNonEmpty(i) ==
    \E j \in 1..Len(logs) :
        /\ logs[j].bookingId \notin {None, ""}
        /\ logs[j].bookingId = bookings[i].id

\* C3: on a rendered bookings page the five counts are the numbers of
\* bookings of the user's whole visible set that satisfy each tab's
\* predicate: they are a function of the store and the user alone, whatever
\* the tab and year parameters, and history_count has no year restriction.
C3_CountsOverVisibleSet ==
    BookingsRendered =>
        /\ resp.pending_count =
             Cardinality({i \in VisibleIdx : bookings[i].status = "PENDING"})
        /\ resp.approved_count =
             Cardinality({i \in VisibleIdx : bookings[i].status = "APPROVED"})
        /\ resp.active_count =
             Cardinality({i \in VisibleIdx : bookings[i].status = "ACTIVE"})
        /\ resp.waiting_log_count =
             Cardinality({i \in VisibleIdx :
                 bookings[i].status = "COMPLETED" /\ ~LoggedNonEmpty(i)})
        /\ resp.history_count = Cardinality({i \in VisibleIdx : Terminal(i)})

\* The HISTORY tab of year 2025 lists one booking while history_count is 2.
C3_Witness ==
    /\ BookingsRendered
    /\ req.tab = "HISTORY" /\ req.year = "2025"
    /\ Len(resp.filtered_bookings) = 1
    /\ resp.history_count = 2

\* The start-time years of the visible bookings with a terminal status.
TerminalYears == {fromisoformat_year(bookings[i].startTime) : i \in {j \in VisibleIdx : Terminal(j)}}

\* C4: history_years is the strictly descending, duplicate-free list of the
\* start-time years of the visible COMPLETED, CANCELLED or REJECTED
\* bookings, and [current year] when there is none; whatever the tab and year.
C4_HistoryYears ==
    BookingsRendered =>
        LET hy == resp.history_years
        IN  IF TerminalYears = {}
            THEN hy = <<CurrentYear>>
            ELSE /\ {hy[k] : k \in 1..Len(hy)} = TerminalYears
                 /\ \A k \in 1..(Len(hy) - 1) : hy[k] > hy[k + 1]

\* Two terminal bookings of different years, on a tab other than HISTORY.
C4_Witness ==
    /\ BookingsRendered
    /\ req.tab = "PENDING" /\ req.year = "2025"
    /\ resp.history_years = <<2026, 2025>>

\* No terminal booking is visible: the list is the current year alone.
C4_WitnessDefault ==
    /\ BookingsRendered
    /\ Len(bookings) = 2
    /\ TerminalYears = {}
    /\ resp.history_years = <<CurrentYear>>

RecognizedTabs == {"PENDING", "APPROVED", "ACTIVE", "WAITING_LOG", "HISTORY"}

\* C8: for a tab value that is none of the five recognized ones, the filtered
\* list is the user's full visible booking list, in store order, whatever
\* the year parameter.
C8_UnrecognizedTabUnfiltered ==
    (BookingsRendered /\ req.tab # None /\ req.tab \notin RecognizedTabs) =>
        /\ Stripped(resp.filtered_bookings) = Restrict(bookings, VisibleIdx)
        /\ resp.filtered_bookings = resp.bookings

\* Tab FOO with a year that matches no booking: both bookings are listed.
C8_Witness ==
    /\ BookingsRendered
    /\ req.tab = "FOO" /\ req.year = "2025"
    /\ Len(resp.filtered_bookings) = 2
    /\ \A k \in 1..2 : resp.filtered_bookings[k].startTime = "2026-01-15T14:00"
    /\ resp.filtered_bookings[1].status = "PENDING"
    /\ resp.filtered_bookings[2].status = "REJECTED"

\* C9: a user whose role is neither STAFF nor ADMIN is shown, and counted,
\* only bookings whose userId is the user's id; STAFF and ADMIN see every
\* booking of the store; a request without a resolvable user is redirected
\* to /login and is shown no booking.
C9_Visibility ==
    /\ (req.route = "bookings" /\ resp # NoRequest /\ ~ReqKnown) =>
            resp = [route |-> "bookings", code |-> 302, location |-> "/login"]
    /\ (BookingsRendered /\ ReqRole \notin {"STAFF", "ADMIN"}) =>
            LET own == {i \in 1..Len(bookings) : bookings[i].userId = req.cookie}
            IN  /\ \A k \in 1..Len(resp.bookings) :
                       resp.bookings[k].userId = req.cookie
                /\ \A k \in 1..Len(resp.filtered_bookings) :
                       resp.filtered_bookings[k].userId = req.cookie
                /\ Stripped(resp.bookings) = Restrict(bookings, own)
                /\ resp.pending_count + resp.approved_count
                       + resp.active_count + resp.history_count = Cardinality(own)
                /\ resp.waiting_log_count <= Cardinality(own)
    /\ (BookingsRendered /\ ReqRole \in {"STAFF", "ADMIN"}) =>
            Stripped(resp.bookings) = bookings

\* A student with one booking of their own and one of another user.
C9_Witness ==
    /\ BookingsRendered
    /\ req.cookie = "u3" /\ ReqRole = "STUDENT"
    /\ Len(bookings) = 2
    /\ bookings[1].userId = "u2" /\ bookings[2].userId = "u3"
    /\ Len(resp.bookings) = 1

\* The visible terminal bookings, in store order.
VisibleHistory == Restrict(bookings, {i \in VisibleIdx : Terminal(i)})

InYearOf(b, y) == fromisoformat_year(b.startTime) = y

\* C10 as stated: on the HISTORY tab a request without a year parameter
\* lists every visible terminal booking, whatever its start time, and a
\* request with a year lists those of that calendar year.
C10_Original ==
    (BookingsRendered /\ req.tab = "HISTORY") =>
        IF req.year = None
        THEN Stripped(resp.filtered_bookings) = VisibleHistory
        ELSE LET In(b) == InYearOf(b, int(req.year))
             IN  Stripped(resp.filtered_bookings) = SelectSeq(VisibleHistory, In)

\* C10 amended: on the HISTORY tab a request without a year parameter lists
\* the visible terminal bookings whose start time falls in the current
\* calendar year; a request with a non-zero year lists those of that year;
\* only year=0 lists them all.
C10_HistoryTab ==
    (BookingsRendered /\ req.tab = "HISTORY") =>
        LET y     == IF req.year = None THEN CurrentYear ELSE int(req.year)
            In(b) == InYearOf(b, y)
        IN  IF y = 0
            THEN Stripped(resp.filtered_bookings) = VisibleHistory
            ELSE Stripped(resp.filtered_bookings) = SelectSeq(VisibleHistory, In)

\* No year parameter, and a terminal booking of last year is left out.
C10_Witness ==
    /\ BookingsRendered
    /\ req.tab = "HISTORY" /\ req.year = None
    /\ Len(VisibleHistory) = 2
    /\ Len(resp.filtered_bookings) = 1

\* Some UsageLog carries the id of booking i as its bookingId.
Logged(i) == \E j \in 1..Len(logs) : logs[j].bookingId = bookings[i].id

\* C2 as stated: on the WAITING_LOG tab the filtered list is the visible
\* COMPLETED bookings minus those whose id is the bookingId of some UsageLog.
C2_Original ==
    (BookingsRendered /\ req.tab = "WAITING_LOG") =>
        Stripped(resp.filtered_bookings) =
            Restrict(bookings, {i \in VisibleIdx :
                bookings[i].status = "COMPLETED" /\ ~Logged(i)})

\* C2 amended: on the WAITING_LOG tab the filtered list is the visible
\* COMPLETED bookings minus those whose id is the non-empty bookingId of
\* some UsageLog; a UsageLog whose bookingId is absent or empty references
\* no booking.
C2_WaitingLogTab ==
    (BookingsRendered /\ req.tab = "WAITING_LOG") =>
        Stripped(resp.filtered_bookings) =
            Restrict(bookings, {i \in VisibleIdx :
                bookings[i].status = "COMPLETED" /\ ~LoggedNonEmpty(i)})

\* Two COMPLETED bookings, the first one logged: only the second is listed.
C2_Witness ==
    /\ BookingsRendered
    /\ req.tab = "WAITING_LOG" /\ req.cookie = "u2"
    /\ Len(bookings) = 2
    /\ bookings[1].status = "COMPLETED" /\ bookings[1].id = "b1"
    /\ bookings[2].status = "COMPLETED" /\ bookings[2].id = "b2"
    /\ \E j \in 1..Len(logs) : logs[j].bookingId = "b1"
    /\ Stripped(resp.filtered_bookings) = <<bookings[2]>>

----------------------------------------------------------------------------
(***************************************************************************)
(* The claims about the equipment pages.                                   *)
(***************************************************************************)
\* a is a substring of b, both lower-cased.
SubstringIgnoringCase(a, b) ==
    LET la == Lower(a)
        lb == Lower(b)
    IN  \E i \in 1..(Len(b) + 1) :
            /\ i + Len(a) - 1 <= Len(b)
            /\ SubSeq(lb, i, i + Len(a) - 1) = la

\* The listing's predicate on the record at position i of db.equipment.
Listed(i) ==
    /\ \/ req.search = <<>>
       \/ SubstringIgnoringCase(req.search, equipment[i].name)
       \/ SubstringIgnoringCase(req.search, equipment[i].code)
    /\ \/ req.status = "ALL"
       \/ equipment[i].status = req.status

C1_ListingFilter ==
    (resp.route = "equipment_list" /\ resp.code = 200) =>
        resp.equipment = Restrict(equipment, {i \in 1..Len(equipment) : Listed(i)})

\* C1: GET /equipment lists exactly the records that satisfy the search
\* predicate (case-insensitive substring of name or code, or empty search)
\* and the status predicate (ALL, or equal status), in store order, and
\* leaves the store unchanged.
C1_EquipmentListing ==
    [][/\ C1_ListingFilter'
       /\ resp'.route = "equipment_list" => store' = store]_vars

\* The search "Ly" keeps the record named "Oly" and drops the one named "ko"
\* that precedes it.
C1_Witness ==
    /\ resp.route = "equipment_list" /\ resp.code = 200
    /\ req.search = <<"L","y">> /\ req.status = "AVAILABLE"
    /\ Len(equipment) = 2
    /\ equipment[1].name = <<"k","o">> /\ equipment[1].code = <<"K","L">>
    /\ equipment[2].name = <<"O","l","y">> /\ equipment[2].status = "AVAILABLE"
    /\ resp.equipment = <<equipment[2]>>

StatsRendered == resp.route = "equipment_stats" /\ resp.code = 200

\* C5: in the statistics the values of the status-count mapping sum to the
\* total equipment count, a record without a status being counted under
\* UNKNOWN, and the values of the department-count mapping sum to the total,
\* a record without a department being counted under N/A.
C5_StatsSums ==
    StatsRendered =>
        LET noStatus == {i \in 1..Len(equipment) : equipment[i].status \in {None, ""}}
            noDept   == {i \in 1..Len(equipment) : equipment[i].usingDepartment \in {None, ""}}
        IN  /\ resp.total_equipment = Len(equipment)
            /\ SumOver(resp.by_status, DOMAIN resp.by_status) = resp.total_equipment
            /\ SumOver(resp.by_department, DOMAIN resp.by_department) = resp.total_equipment
            /\ \A k \in DOMAIN resp.by_status : resp.by_status[k] > 0
            /\ \A k \in DOMAIN resp.by_department : resp.by_department[k] > 0
            /\ noStatus # {} => Get(resp.by_status, "UNKNOWN") = Cardinality(noStatus)
            /\ noDept # {} => Get(resp.by_department, "N/A") = Cardinality(noDept)

\* Two records with the same status, one of them without a department.
C5_Witness ==
    /\ StatsRendered
    /\ Len(equipment) = 2
    /\ resp.by_status = [k \in {"UNKNOWN"} |-> 2]
    /\ resp.by_department = [k \in {"Lab", "N/A"} |-> 1]

----------------------------------------------------------------------------
(***************************************************************************)
(* The claim about POST /api/login.                                        *)
(***************************************************************************)
\* The form names a user of the store, with that user's password, and the
\* user is not locked.
CredentialsGood ==
    \E i \in 1..Len(users) :
        /\ users[i].id = req.user_id
        /\ users[i].password = req.password
        /\ users[i].isLocked = FALSE

\* C6: the login response sets the user_id cookie, to the user's id and
\* with success = true, iff the submitted id names a user, the password is
\* that user's and the user is not locked; every other response is a 401
\* with success = false that sets no cookie.
C6_LoginCookie ==
    resp.route = "login" =>
        /\ (resp.set_cookie # None) <=> CredentialsGood
        /\ CredentialsGood =>
              /\ resp.code = 200 /\ resp.success = TRUE
              /\ resp.set_cookie = req.user_id
        /\ ~CredentialsGood =>
              /\ resp.code = 401 /\ resp.success = FALSE
              /\ resp.set_cookie = None

\* A locked user submits the right password and is refused.
C6_Witness ==
    /\ resp.route = "login"
    /\ req.user_id = "u3" /\ req.password = "123@"
    /\ users[3].id = "u3" /\ users[3].password = "123@" /\ users[3].isLocked
    /\ resp.code = 401 /\ resp.set_cookie = None

----------------------------------------------------------------------------
(***************************************************************************)
(* The claim about the staff-gated API endpoints.                          *)
(***************************************************************************)
StaffApiRoutes ==
    {"api_users", "api_usage_logs", "inventory_sessions", "inventory_create",
     "inventory_update", "inventory_delete"}

\* The request's current user exists and is STAFF or ADMIN.
ReqIsStaff == ReqKnown /\ ReqRole \in {"STAFF", "ADMIN"}

C7_Responses ==
    resp.route \in StaffApiRoutes =>
        /\ ~ReqIsStaff =>
              /\ resp.code = 401 /\ resp.success = FALSE
              /\ DOMAIN resp = {"route", "code", "success", "message"}
        /\ ReqIsStaff => resp.code # 401

\* C7: on /api/users, /api/usage-logs and the four /api/inventory/sessions
\* endpoints a request without a current user, or whose user is neither
\* STAFF nor ADMIN, is answered 401 with success = false and no data, and
\* leaves the store unchanged; a STAFF or ADMIN request is never answered 401.
C7_StaffGate ==
    [][/\ C7_Responses'
       /\ (resp'.route \in StaffApiRoutes /\ resp'.code = 401) => store' = store]_vars

\* The student asks to delete the session a staff member created: 401, and
\* the session is still there.
C7_Witness ==
    /\ resp.route = "inventory_delete" /\ req.cookie = "u3"
    /\ req.session_id = "s1"
    /\ resp.code = 401
    /\ inventorySessions.present /\ Len(inventorySessions.items) = 1
    /\ inventorySessions.items[1]["id"] = "s1"

----------------------------------------------------------------------------
(***************************************************************************)
(* The claim about the waiting-log state over time.                        *)
(***************************************************************************)
\* The step renders the bookings page: the handler answers 200 and, as it
\* always does, leaves the store alone.
PageRendered == store' = store /\ resp'.route = "bookings" /\ resp'.code = 200

\* The visible COMPLETED bookings that no UsageLog references, a reference
\* being given by the predicate Ref on positions of db.bookings.
AwaitingLog(Ref(_)) ==
    {i \in VisibleIdx : bookings[i].status = "COMPLETED" /\ ~Ref(i)}

\* The page shows, in the WAITING_LOG list and in waiting_log_count, exactly
\* the bookings of `waiting`, and history_count counts every visible
\* terminal booking.
ShowsAwaiting(waiting) ==
    /\ resp.waiting_log_count = Cardinality(waiting)
    /\ req.tab = "WAITING_LOG" =>
           Stripped(resp.filtered_bookings) = Restrict(bookings, waiting)
    /\ resp.history_count = Cardinality({i \in VisibleIdx : Terminal(i)})

\* history_count of the page the user with this cookie would be shown.
HistoryCountFor(cookie) ==
    LET enhanced == EnhancedBookings(get_current_user(cookie))
        filtered == filter_by_tab(enhanced, "HISTORY", LoggedBookingIds,
                                  SelectedYear(None))
    IN  HistoryCount(Counted(enhanced, filtered))

LogAddedKeepsHistoryCount ==
    logs' # logs =>
        \A cookie \in {"u3", "u2", "adminctump"} :
            HistoryCountFor(cookie)' = HistoryCountFor(cookie)

\* C11 as stated: over any sequence of store changes, every rendering of
\* the page lists and counts as awaiting a log exactly the visible COMPLETED
\* bookings whose id no UsageLog carries as bookingId, and adding a log
\* leaves history_count as it was.
C11_Original ==
    [][/\ PageRendered => ShowsAwaiting(AwaitingLog(Logged))'
       /\ LogAddedKeepsHistoryCount]_vars

\* C11 amended: over any sequence of store changes, every rendering of the
\* page lists and counts as awaiting a log exactly the visible COMPLETED
\* bookings whose id no UsageLog carries as a non-empty bookingId: a
\* booking is there until such a log is added and never again while the log
\* exists; adding a log leaves history_count, which counts every visible
\* terminal booking, as it was.
C11_WaitingLogOverTime ==
    [][/\ PageRendered => ShowsAwaiting(AwaitingLog(LoggedNonEmpty))'
       /\ LogAddedKeepsHistoryCount]_vars

\* The student's COMPLETED booking b1 after its log was added: gone from the
\* WAITING_LOG list and from waiting_log_count, still in history_count.
C11_Witness ==
    /\ BookingsRendered
    /\ req.cookie = "u3" /\ req.tab = "WAITING_LOG"
    /\ Len(bookings) = 1 /\ bookings[1].id = "b1" /\ bookings[1].status = "COMPLETED"
    /\ Len(logs) = 1 /\ logs[1].bookingId = "b1"
    /\ resp.filtered_bookings = <<>>
    /\ resp.waiting_log_count = 0
    /\ resp.history_count = 1

----------------------------------------------------------------------------
(***************************************************************************)
(* The claim about concurrent requests.                                    *)
(***************************************************************************)
AllDone == \A i \in 1..MaxInFlight : req[i].pc = "done"

\* The n-th response reports a mutation of the kind `route` that took place.
TookEffect(n, route) == resp[n].route = route /\ resp[n].code = 200

\* What one PUT does to a list of sessions: the sessions with its id get
\* the keys of its payload, the others stay.
EffectOfUpdate(list, r) ==
    [k \in 1..Len(list) |->
        IF list[k]["id"] = r.session_id
        THEN [f \in DOMAIN list[k] \cup DOMAIN r.payload |->
                 IF f \in DOMAIN r.payload THEN r.payload[f] ELSE list[k][f]]
        ELSE list[k]]

\* The store after the requests of the first n responses have been served
\* one after the other, each as a whole, in the order of the responses.
RECURSIVE SerialVisits(_)
SerialVisits(n) ==
    IF n = 0 THEN SeedVisitorCount
    ELSE SerialVisits(n - 1) + (IF TookEffect(n, "home") THEN 1 ELSE 0)

RECURSIVE SerialBookings(_)
SerialBookings(n) ==
    IF n = 0 THEN <<>>
    ELSE IF TookEffect(n, "create_booking")
         THEN Append(SerialBookings(n - 1), req[resp[n].slot].data)
         ELSE SerialBookings(n - 1)

RECURSIVE SerialSessions(_)
SerialSessions(n) ==
    IF n = 0 THEN ArrivalSessions
    ELSE IF TookEffect(n, "inventory_update")
         THEN EffectOfUpdate(SerialSessions(n - 1), req[resp[n].slot])
         ELSE SerialSessions(n - 1)

\* Requests 1 and 2 are both of the kind `route` and both took effect.
BothTookEffect(route) ==
    /\ Len(resp) >= 2
    /\ \A i \in {1, 2} : \E n \in 1..Len(resp) :
           resp[n].slot = i /\ TookEffect(n, route)

\* C12 as stated, on the completed runs of two concurrent requests of one
\* kind: the store reflects the effect of only one of them: two GET / raise
\* the counter by 1, of two created bookings one is in db.bookings, of two
\* PUTs with different payloads one is in the session.
C12_Original ==
    AllDone =>
        /\ BothTookEffect("home") => visitorCount = SeedVisitorCount + 1
        /\ BothTookEffect("create_booking") => Len(bookings) = 1
        /\ (BothTookEffect("inventory_update") /\ req[1].payload # req[2].payload) =>
               \E i \in {1, 2} :
                   inventorySessions.items = EffectOfUpdate(ArrivalSessions, req[i])

\* C12 amended: with the handler bodies of concurrent requests interleaving
\* only at their awaits, no update is lost: whatever the interleaving, the
\* visitor counter, db.bookings and the inventory sessions are what serving
\* the answered requests one after the other, in the order of their
\* responses, leaves (two GET / raise the counter by 2).
C12_NoLostUpdate ==
    /\ visitorCount = SerialVisits(Len(resp))
    /\ bookings = SerialBookings(Len(resp))
    /\ inventorySessions.items = SerialSessions(Len(resp))

\* Two staff PUTs on session s1 with different payloads are both answered:
\* the session carries the date of the one and the note of the other.
C12_Witness ==
    /\ AllDone
    /\ BothTookEffect("inventory_update")
    /\ req[1].payload = [date |-> "soon"] /\ req[2].payload = [note |-> "x"]
    /\ inventorySessions.items = <<[id |-> "s1", date |-> "soon", note |-> "x"]>>

----------------------------------------------------------------------------
(***************************************************************************)
(* The claim about the booking store.                                      *)
(***************************************************************************)
\* C13: every POST /api/bookings/create with a structurally valid payload
\* appends exactly that booking at the end of db.bookings and returns
\* success, whatever its time range, userId and equipmentId; a refused
\* payload and every other operation leave db.bookings as it is: nothing is
\* removed, reordered or modified, so db.bookings is the sequence of the
\* created bookings in creation order.
C13_AppendOnly ==
    [][/\ (resp'.route = "create_booking" /\ req'.data # BadPayload) =>
              /\ bookings' = Append(bookings, req'.data)
              /\ resp'.code = 200 /\ resp'.success = TRUE
       /\ (resp'.route = "create_booking" /\ req'.data = BadPayload) =>
              bookings' = bookings
       /\ resp'.route # "create_booking" => bookings' = bookings]_vars

\* A second booking of the same equipment at the same time, by a user and
\* for an equipment the store does not hold, has just been accepted.
C13_Witness ==
    /\ resp.route = "create_booking" /\ resp.code = 200 /\ resp.success = TRUE
    /\ Len(bookings) = 2
    /\ req.data = bookings[2]
    /\ bookings[1].equipmentId = bookings[2].equipmentId
    /\ bookings[1].startTime = bookings[2].startTime
    /\ get_user(bookings[2].userId) = NotFound
    /\ get_equipment(bookings[2].equipmentId) = NotFound

----------------------------------------------------------------------------
(***************************************************************************)
(* The claim about the resolution of the current user.                     *)
(***************************************************************************)
\* The request passed its guard and was served as the user its cookie names.
ServedAsCookieUser ==
    /\ resp.code = 200
    /\ resp.route \in LoginPages \cup StaffPages \cup AdminPages =>
           resp.current_user = req.cookie
    /\ resp.route = "api_me" => resp.data.id = req.cookie

\* The request was turned away: a page redirects to `path`, an API answers 401.
TurnedAway(path) ==
    IF resp.route \in {"api_me", "api_equipment", "api_users"}
    THEN resp.code = 401
    ELSE resp.code = 302 /\ resp.location = path

\* The roles the route admits.
AdmittedRoles(route) ==
    CASE route \in StaffPages \cup {"api_users"} -> {"STAFF", "ADMIN"}
      [] route \in AdminPages                   -> {"ADMIN"}
      [] OTHER                                  -> {"STUDENT", "STAFF", "ADMIN"}

GatedRoutes ==
    LoginPages \cup StaffPages \cup AdminPages \cup {"api_me", "api_equipment", "api_users"}

\* C14: a request whose user_id cookie is the id of a user of the store is
\* served as that user when the user's role is one the route admits, and
\* turned away only for its role; a request with no such cookie is turned
\* away to /login.  Nothing else decides: not the user's locked flag, not
\* whether a login preceded the request.
C14_CookieOnlyResolution ==
    resp.route \in GatedRoutes =>
        IF ~ReqKnown THEN TurnedAway("/login")
        ELSE IF ReqRole \in AdmittedRoles(resp.route) THEN ServedAsCookieUser
        ELSE TurnedAway("/")

\* The locked staff member u2, whom POST /api/login refuses, is served the
\* dashboard on the cookie alone.
C14_Witness ==
    /\ resp.route = "dashboard" /\ req.cookie = "u2"
    /\ users[2].id = "u2" /\ users[2].isLocked
    /\ ~LoginAccepts(users[2], users[2].password)
    /\ resp.code = 200 /\ resp.current_user = "u2"

====
